---- MODULE Spec2Model ----
(***************************************************************************)
(* Model of applyMiddlewares (src/src/main.ts): a Proxy around a data      *)
(* provider whose get trap returns, for every property, a callable that    *)
(* folds the middlewares registered under that property name around the    *)
(* provider's own method and invokes the folded chain.                     *)
(*                                                                         *)
(* A call is executed step by step: a stack of middleware invocations, the *)
(* middleware on top either calling its next, returning or throwing.  The  *)
(* middlewares are those of the test file (src/unnamed/part_000) plus a    *)
(* few generic ones allowed by the DataProviderMethodMiddleware type.      *)
(***************************************************************************)
EXTENDS Integers, Sequences, FiniteSets, TLC

VARIABLES
    middlewares,  \* the registry given to applyMiddlewares: method name -> list
    target,       \* the base provider: method name -> its implementation
    calls         \* per call of a wrapped method: its progress and its history

vars == <<middlewares, target, calls>>

-----------------------------------------------------------------------------
(* Bounds *)

\* longest middleware list registered under one method name
MaxMw == 2

\* most invocations of one callable
MaxCalls == 2

-----------------------------------------------------------------------------
(* Values *)

Methods == {"getList", "update", "customMethod"}

CallIds == {"A"}

\* a property key that is a symbol, not a string
SymbolKeys == {"Symbol.dispose"}

\* the property keys read on the wrapped provider: the methods, a flag that
\* is not a function, and a symbol
Props == Methods \cup {"supportAbortSignal"} \cup SymbolKeys

\* typeof prop === "string"
IsStringKey(prop) == prop \notin SymbolKeys

\* what a provider holds under a key is callable: a method ("orig"), or the
\* spy installed over it; a flag ("true", "false") and undefined are not
IsFunction(value) == value \in {"orig", "spy"}

\* params.data / params.previousData of update; updatedAt = "none" when the
\* field is absent
Post == [id |-> 1, title |-> "Hello, world!", updatedAt |-> "none"]

PostEdited == [id |-> 1, title |-> "FooBar", updatedAt |-> "none"]

UpdateParams == {[id |-> 1, data |-> d, previousData |-> Post] : d \in {Post, PostEdited}}

GetListParams == [page |-> 1, perPage |-> 10, field |-> "id", order |-> "ASC"]

\* the argument lists a caller passes, per method
ArgsOf(m) ==
    CASE m = "update" -> {<<r, p>> : r \in {"posts", "comments"}, p \in UpdateParams}
      [] m = "getList" -> {<<"posts", GetListParams>>}
      [] OTHER -> {<<[value |-> TRUE]>>}

\* what a function call yields: a promise (resolved or rejected), undefined,
\* or an exception thrown synchronously.  by: who produced it; on: the
\* argument list it was produced from.
Outcome(kind, by, on) == [kind |-> kind, by |-> by, on |-> on]

Undefined == Outcome("undefined", "none", <<>>)

TypeError == Outcome("throw", "TypeError", <<>>)

-----------------------------------------------------------------------------
(* The middlewares *)

Kinds == {"logging", "dontUpdate", "auditLog", "forward", "twice", "thrower",
          "rejecter", "rescue"}

\* lodash isEqual on two records
isEqual(a, b) == a = b

\* auditLogMiddleware's rewritten params: data gets an updatedAt field
WithUpdatedAt(params) == [params EXCEPT !.data.updatedAt = "ts"]

\* What the middleware of the given kind does next, having received recv,
\* having completed pc calls of next, the last of which yielded last.
MwAction(kind, recv, pc, last) ==
    CASE kind = "logging" ->
            IF pc = 0 THEN [do |-> "next", args |-> recv]
            ELSE [do |-> "return", res |-> Undefined]
      [] kind = "dontUpdate" ->
            IF pc > 0 THEN [do |-> "return", res |-> last]
            ELSE IF recv[1] # "posts" THEN [do |-> "next", args |-> <<recv[1], recv[2]>>]
            ELSE IF isEqual(recv[2].data, recv[2].previousData)
                 THEN [do |-> "return",
                       res |-> Outcome("resolved", "dontUpdate", <<recv[2].previousData>>)]
            ELSE [do |-> "next", args |-> <<recv[1], recv[2]>>]
      [] kind = "auditLog" ->
            IF pc = 0 THEN [do |-> "next", args |-> <<recv[1], WithUpdatedAt(recv[2])>>]
            ELSE [do |-> "return", res |-> last]
      [] kind = "forward" ->
            IF pc = 0 THEN [do |-> "next", args |-> recv]
            ELSE [do |-> "return", res |-> last]
      [] kind = "twice" ->
            IF pc < 2 THEN [do |-> "next", args |-> recv]
            ELSE [do |-> "return", res |-> last]
      [] kind = "thrower" ->
            [do |-> "throw", res |-> Outcome("throw", "thrower", <<>>)]
      [] kind = "rejecter" ->
            [do |-> "return", res |-> Outcome("rejected", "rejecter", <<>>)]
      [] OTHER -> \* rescue: try { return next(...args) } catch { return fallback }
            IF pc = 0 THEN [do |-> "next", args |-> recv]
            ELSE IF last.kind = "throw"
                 THEN [do |-> "return", res |-> Outcome("resolved", "rescue", <<>>)]
            ELSE [do |-> "return", res |-> last]

\* whether a frame of this kind has a catch block around its call of next
Catches(kind) == kind = "rescue"

-----------------------------------------------------------------------------
(* The base provider *)

\* what the implementation impl of a method does when invoked with args: the
\* provider is opaque, it answers, rejects or throws as it chooses (how), and
\* what it yields depends on the arguments it was given
BaseOutcomes == {"resolved", "rejected", "throw"}

BaseCall(impl, how, args) == Outcome(how, impl, args)

-----------------------------------------------------------------------------
(* The proxy: applyMiddlewares *)

\* (mutant) the list is stripped of its repeated middlewares
RECURSIVE WithoutRepeats(_)
WithoutRepeats(l) ==
    IF l = <<>> THEN <<>>
    ELSE LET front == WithoutRepeats(SubSeq(l, 1, Len(l) - 1)) IN
         IF \E i \in 1..(Len(l) - 1) : l[i] = l[Len(l)] THEN front
         ELSE Append(front, l[Len(l)])

MiddlewaresDeduplicated(registry, method) ==
    IF method \in DOMAIN registry THEN WithoutRepeats(registry[method]) ELSE <<>>

\* (mutant) the registry is consulted only for the methods the provider has
MiddlewaresIfImplemented(registry, method) ==
    IF method \in DOMAIN registry /\ target[method] # "undefined"
    THEN registry[method] ELSE <<>>

\* (mutant) the list read at the first invocation of a callable is kept for
\* its later invocations
MiddlewaresCached(registry, method) ==
    LET made == {i \in DOMAIN calls : calls[i].n > 0 /\ calls[i].prop = method} IN
    IF made # {} THEN calls[CHOOSE i \in made : TRUE].mws
    ELSE IF method \in DOMAIN registry THEN registry[method] ELSE <<>>

\* middlewares[method] ?? []
MiddlewaresToApply(registry, method) ==
    IF method \in DOMAIN registry THEN registry[method] ELSE <<>>

\* (mutant) the method name is fixed instead of being the property read
MethodOfFixed(prop) == "getList"

\* the name under which the get trap's callable looks the registry up and
\* the name of the base method the terminal step invokes
MethodOf(prop) == prop

\* (mutant) the chain is invoked with the call's arguments alone
ChainInputArgsOnly(method, args) == args

\* invokeChain(method, ...args): the argument list given to the folded chain
ChainInput(method, args) == <<method>> \o args

\* (mutant) the arguments are kept in a variable shared by the calls of a
\* method: a wrapper hands on those of a call of it still in progress
WrapperArgsShared(args, passed) ==
    LET others == {i \in DOMAIN calls :
                      /\ calls[i].st = "running"
                      /\ Len(calls[i].args) = Len(args)
                      /\ calls[i].args[1] = args[1]
                      /\ calls[i].args # args}
    IN  IF others = {} THEN args ELSE calls[CHOOSE i \in others : TRUE].args

\* (mutant) the wrapper hands on what it was invoked with
WrapperArgsPassed(args, passed) == passed

\* () => middleware(next, ...args): the arguments a wrapper of the fold hands
\* to its middleware, args being the call's own arguments and passed what the
\* wrapper itself was invoked with
WrapperArgs(args, passed) == args

\* (mutant) the terminal step ignores what it is invoked with, as the
\* wrappers do
TerminalArgsDropped(passed) == <<>>

\* (...args) => target[method](...args): the arguments the terminal step
\* hands to the base method
TerminalArgs(passed) == passed

\* (mutant) reduce instead of reduceRight: the last listed is outermost
FoldIndexLeft(n, depth) == n + 1 - depth

\* reduceRight folds the list from its last element, so the wrapper at depth
\* d of the folded chain (1 = outermost) holds the d-th listed middleware
FoldIndex(n, depth) == depth

\* what reading a property of the proxy yields: the get trap returns an
\* arrow function, whatever prop is and whatever the provider holds under it
GetTrap(prop) == "callable"

\* the callable the get trap returns holds prop and nothing else
Callable(prop) ==
    [st |-> "got", got |-> GetTrap(prop), prop |-> prop, n |-> 0, args |-> <<>>,
     mws |-> <<>>, stack |-> <<>>, result |-> Undefined, trace |-> <<>>]

\* history of a call, one event per function invoked or left:
\*   chain   the folded chain is invoked with args
\*   mw      the middleware listed at pos under key is invoked with (next, ...args)
\*   next    the middleware listed at pos calls its next with args
\*   base    the terminal step invokes the base method key with args, yielding res
\*   return  the middleware listed at pos returns res
\*   throw   the middleware listed at pos throws res
Event(ev, pos, key, kind, args, res) ==
    [ev |-> ev, pos |-> pos, key |-> key, kind |-> kind, args |-> args, res |-> res]

\* an invocation of a middleware: depth in the chain, listed position, what
\* it received, how many calls of next it completed and what the last yielded
Frame(depth, pos, kind, recv) ==
    [depth |-> depth, pos |-> pos, kind |-> kind, recv |-> recv, pc |-> 0,
     last |-> Undefined]

IdleCall ==
    [st |-> "idle", got |-> "nothing", prop |-> "none", n |-> 0, args |-> <<>>,
     mws |-> <<>>, stack |-> <<>>, result |-> Undefined, trace |-> <<>>]

\* (mutant) the callable is an async function: what the outermost stage
\* returns reaches the caller wrapped in a promise
DeliverAwaited(c, r) ==
    IF c.stack = <<>>
    THEN [c EXCEPT !.st = "done",
                   !.result = Outcome(IF r.kind = "undefined" THEN "resolved" ELSE r.kind,
                                      r.by, r.on)]
    ELSE [c EXCEPT !.stack[Len(c.stack)].last = r,
                   !.stack[Len(c.stack)].pc = @ + 1]

\* a function of the chain (a wrapper, or the terminal step) returns r to
\* whoever invoked it: the middleware below it on the stack, or the caller of
\* the wrapped method
Deliver(c, r) ==
    IF c.stack = <<>>
    THEN [c EXCEPT !.st = "done", !.result = r]
    ELSE [c EXCEPT !.stack[Len(c.stack)].last = r,
                   !.stack[Len(c.stack)].pc = @ + 1]

\* an exception e leaves the function on top of the stack: frames are
\* discarded up to the nearest middleware that catches, else up to the caller
RECURSIVE Unwind(_, _)
Unwind(c, e) ==
    IF c.stack = <<>>
    THEN [c EXCEPT !.st = "done", !.result = e]
    ELSE IF Catches(c.stack[Len(c.stack)].kind)
    THEN Deliver(c, e)
    ELSE Unwind([c EXCEPT !.stack = SubSeq(@, 1, Len(@) - 1)], e)

\* (mutant) the terminal step catches what the base method throws
CompleteSwallowed(c, r) == Deliver(c, IF r.kind = "throw" THEN Undefined ELSE r)

\* the terminal step completes as the base method does: r is returned to the
\* function's invoker, or thrown
Complete(c, r) == IF r.kind = "throw" THEN Unwind(c, r) ELSE Deliver(c, r)

\* (mutant) the terminal step calls the implementation the provider had
\* when it was wrapped
TerminalStepOriginal(impl, how, args) ==
    IF IsFunction(impl) THEN BaseCall("orig", how, args) ELSE TypeError

\* target[method](...args): calling what the provider holds under method;
\* calling what is not a function is a TypeError
TerminalStep(impl, how, args) ==
    IF IsFunction(impl) THEN BaseCall(impl, how, args) ELSE TypeError

\* A wrapper of the fold is invoked with the argument list passed: it
\* invokes its middleware
InvokeMiddleware(c, depth, passed) ==
    LET recv == WrapperArgs(c.args, passed)
        pos == FoldIndex(Len(c.mws), depth)
    IN  [c EXCEPT !.stack = Append(@, Frame(depth, pos, c.mws[pos], recv)),
                  !.trace = Append(@, Event("mw", pos, MethodOf(c.prop), c.mws[pos],
                                            recv, Undefined))]

\* (mutant) identical calls are deduplicated: the terminal step answers with
\* what the base method yielded for the same arguments, without invoking it
InvokeTerminalDeduplicated(c, depth, passed, how) ==
    LET a == TerminalArgs(passed)
        m == MethodOf(c.prop)
        r == TerminalStep(target[m], how, a)
        same == {r2 \in UNION {{calls[i].trace[k].res :
                                   k \in {j \in 1..Len(calls[i].trace) :
                                             /\ calls[i].trace[j].ev = "base"
                                             /\ calls[i].trace[j].key = m
                                             /\ calls[i].trace[j].args = a}} :
                               i \in DOMAIN calls} : r2.kind # "throw"}
    IN  IF same # {}
        THEN Deliver(c, CHOOSE r2 \in same : TRUE)
        ELSE Complete([c EXCEPT !.trace = Append(@, Event("base", depth, m, target[m], a, r))], r)

\* The terminal step is invoked with the argument list passed: it invokes
\* the base method, which completes as how says
InvokeTerminal(c, depth, passed, how) ==
    LET a == TerminalArgs(passed)
        m == MethodOf(c.prop)
        r == TerminalStep(target[m], how, a)
    IN  Complete([c EXCEPT !.trace = Append(@, Event("base", depth, m, target[m], a, r))], r)

\* (mutant) a next may be called once: a later call of it throws
InvokeStageOnce(c, depth, passed, how) ==
    IF c.stack # <<>> /\ c.stack[Len(c.stack)].pc > 0
    THEN Unwind(c, Outcome("throw", "next called twice", <<>>))
    ELSE IF depth <= Len(c.mws)
    THEN InvokeMiddleware(c, depth, passed)
    ELSE InvokeTerminal(c, depth, passed, how)

\* The function at the given depth of the folded chain is invoked with the
\* argument list passed, each time it is called: a wrapper, or the terminal
\* step at depth Len(mws) + 1
InvokeStage(c, depth, passed, how) ==
    IF depth <= Len(c.mws)
    THEN InvokeMiddleware(c, depth, passed)
    ELSE InvokeTerminal(c, depth, passed, how)

Top(c) == c.stack[Len(c.stack)]

TopAction(c) == MwAction(Top(c).kind, Top(c).recv, Top(c).pc, Top(c).last)

Pop(c) == [c EXCEPT !.stack = SubSeq(@, 1, Len(@) - 1)]

-----------------------------------------------------------------------------
(* Initial states: applyMiddlewares(dataProvider, middlewares) *)

RECURSIVE ListsUpTo(_)
ListsUpTo(n) ==
    IF n = 0 THEN {<<>>}
    ELSE LET S == ListsUpTo(n - 1) IN
         S \cup {Append(l, k) : l \in {x \in S : Len(x) = n - 1}, k \in Kinds}

\* the entries registered under the other methods: the lists of the tests,
\* an empty list, and a middleware that answers without calling next
OtherEntries ==
    {"getList" :> <<"logging", "logging">>,
     "customMethod" :> <<"logging", "logging">>,
     "customMethod" :> <<>>,
     "customMethod" :> <<"rejecter">>}

\* the registries: update has any list (or no entry), and at most one other
\* method has an entry
Registries ==
    {u @@ o :
        u \in {<<>>} \cup {"update" :> l : l \in ListsUpTo(MaxMw)},
        o \in {<<>>} \cup OtherEntries}

\* a provider with the methods S, the value flag under supportAbortSignal
\* and the value sym under the symbol key
Provider(S, flag, sym) ==
    [p \in Props |->
        IF p \in Methods THEN (IF p \in S THEN "orig" ELSE "undefined")
        ELSE IF p \in SymbolKeys THEN sym
        ELSE flag]

\* the providers: the fakerest provider with customMethod and the flag, the
\* plain one (no customMethod, no flag), and a provider that lacks update
\* and has a method under the symbol key
Providers ==
    {Provider(Methods, "false", "undefined"),
     Provider(Methods \ {"customMethod"}, "undefined", "undefined"),
     Provider(Methods \ {"update"}, "true", "orig")}

Init ==
    /\ middlewares \in Registries
    /\ target \in Providers
    /\ calls = [c \in CallIds |-> IdleCall]

-----------------------------------------------------------------------------
(* Actions *)

\* dataProvider[prop]: the get trap returns a callable, whatever prop is and
\* whatever the provider and the registry hold under it
Get(id, prop) ==
    /\ calls[id].st = "idle"
    /\ calls' = [calls EXCEPT ![id] = Callable(prop)]
    /\ UNCHANGED <<middlewares, target>>

\* the callable is called with args and prop is not a string:
\* return target[prop](...args), without the registry
DirectCall(c, args, how) ==
    LET r == TerminalStep(target[c.prop], how, args) IN
    Complete([c EXCEPT !.st = "running", !.args = args,
                       !.trace = <<Event("base", 1, c.prop, target[c.prop], args, r)>>], r)

\* The body of the callable, for its n-th invocation: everything of an
\* invocation is local to it (the list read from the registry, the folded
\* chain, the arguments); for a string prop the chain is folded and invoked
Invoke(callable, args, how) ==
    LET fresh == [callable EXCEPT !.st = "running", !.n = @ + 1, !.args = args,
                                  !.mws = <<>>, !.stack = <<>>, !.result = Undefined,
                                  !.trace = <<>>]
        method == MethodOf(callable.prop)
        mws == MiddlewaresToApply(middlewares, method)
        input == ChainInput(method, args)
        c == [fresh EXCEPT !.mws = mws,
                           !.trace = <<Event("chain", 0, method, "invokeChain",
                                             input, Undefined)>>]
    IN  IF IsStringKey(callable.prop)
        THEN InvokeStage(c, 1, input, how)
        ELSE DirectCall(fresh, args, how)

\* the callable just read is called with args
Call(id, args, how) ==
    /\ calls[id].st = "got"
    /\ args \in ArgsOf(calls[id].prop)
    /\ calls' = [calls EXCEPT ![id] = Invoke(calls[id], args, how)]
    /\ UNCHANGED <<middlewares, target>>

\* the middleware on top of the stack calls its next
MwCallsNext(id, how) ==
    /\ calls[id].st = "running"
    /\ calls[id].stack # <<>>
    /\ TopAction(calls[id]).do = "next"
    /\ LET c == calls[id]
           a == TopAction(c).args
           d == [c EXCEPT !.trace = Append(@, Event("next", Top(c).pos, MethodOf(c.prop),
                                                    Top(c).kind, a, Undefined))]
       IN  calls' = [calls EXCEPT ![id] = InvokeStage(d, Top(c).depth + 1, a, how)]
    /\ UNCHANGED <<middlewares, target>>

\* the middleware on top of the stack returns
MwReturns(id) ==
    /\ calls[id].st = "running"
    /\ calls[id].stack # <<>>
    /\ TopAction(calls[id]).do = "return"
    /\ LET c == calls[id]
           r == TopAction(c).res
           d == [c EXCEPT !.trace = Append(@, Event("return", Top(c).pos, MethodOf(c.prop),
                                                    Top(c).kind, <<>>, r))]
       IN  calls' = [calls EXCEPT ![id] = Deliver(Pop(d), r)]
    /\ UNCHANGED <<middlewares, target>>

\* the middleware on top of the stack throws
MwThrows(id) ==
    /\ calls[id].st = "running"
    /\ calls[id].stack # <<>>
    /\ TopAction(calls[id]).do = "throw"
    /\ LET c == calls[id]
           r == TopAction(c).res
           d == [c EXCEPT !.trace = Append(@, Event("throw", Top(c).pos, MethodOf(c.prop),
                                                    Top(c).kind, <<>>, r))]
       IN  calls' = [calls EXCEPT ![id] = Unwind(Pop(d), r)]
    /\ UNCHANGED <<middlewares, target>>

Next ==
    \/ \E id \in CallIds, prop \in Props : Get(id, prop)
    \/ \E id \in CallIds, how \in BaseOutcomes :
          \E a \in ArgsOf(calls[id].prop) : Call(id, a, how)
    \/ \E id \in CallIds, how \in BaseOutcomes : MwCallsNext(id, how)
    \/ \E id \in CallIds : MwReturns(id)
    \/ \E id \in CallIds : MwThrows(id)

Spec == Init /\ [][Next]_vars

-----------------------------------------------------------------------------
(* Two calls in progress at once: a middleware or the base method may
   suspend, and the steps of two calls then interleave *)

ConcIds == {"A", "B"}

\* the lists registered under update when two calls run
ConcLists ==
    {<<>>, <<"logging", "logging">>, <<"auditLog", "forward">>, <<"dontUpdate">>,
     <<"twice">>, <<"thrower">>}

InitConc ==
    /\ middlewares \in {"update" :> l : l \in ConcLists}
    /\ target = Provider(Methods, "false", "undefined")
    /\ calls = [c \in ConcIds |-> IdleCall]

NextConc ==
    \/ \E id \in ConcIds, prop \in {"update", "getList"} : Get(id, prop)
    \/ \E id \in ConcIds, how \in BaseOutcomes :
          \E a \in ArgsOf(calls[id].prop) : Call(id, a, how)
    \/ \E id \in ConcIds, how \in BaseOutcomes : MwCallsNext(id, how)
    \/ \E id \in ConcIds : MwReturns(id)
    \/ \E id \in ConcIds : MwThrows(id)

SpecConc == InitConc /\ [][NextConc]_vars

-----------------------------------------------------------------------------
(* The wrapped provider in use: its callables are called again, and the
   caller's code replaces a method of the base provider or an entry of the
   registry, both objects the proxy holds by reference *)

EnvMethods == {"update", "getList"}

EnvLists ==
    {<<>>, <<"logging", "logging">>, <<"auditLog">>, <<"dontUpdate">>, <<"twice">>,
     <<"thrower">>}

InitEnv ==
    /\ middlewares \in {"update" :> l : l \in EnvLists}
    /\ target = Provider(Methods, "false", "undefined")
    /\ calls = [c \in CallIds |-> IdleCall]

\* the callable, its invocation over, is called once more
CallAgain(id, args, how) ==
    /\ calls[id].st = "done"
    /\ calls[id].n < MaxCalls
    /\ args \in ArgsOf(calls[id].prop)
    /\ calls' = [calls EXCEPT ![id] = Invoke(calls[id], args, how)]
    /\ UNCHANGED <<middlewares, target>>

\* vi.spyOn(baseDataProvider, m): the method of the base provider is
\* replaced by a spy, after the provider was wrapped
SpyOn(m) ==
    /\ target[m] = "orig"
    /\ target' = [target EXCEPT ![m] = "spy"]
    /\ UNCHANGED <<middlewares, calls>>

\* the caller replaces the list registered under m
Register(m, l) ==
    /\ m \in DOMAIN middlewares
    /\ middlewares[m] # l
    /\ middlewares' = [middlewares EXCEPT ![m] = l]
    /\ UNCHANGED <<target, calls>>

NextEnv ==
    \/ \E id \in CallIds, prop \in EnvMethods : Get(id, prop)
    \/ \E id \in CallIds, how \in BaseOutcomes :
          \E a \in ArgsOf(calls[id].prop) : Call(id, a, how)
    \/ \E id \in CallIds, how \in BaseOutcomes :
          \E a \in ArgsOf(calls[id].prop) : CallAgain(id, a, how)
    \/ \E id \in CallIds, how \in BaseOutcomes : MwCallsNext(id, how)
    \/ \E id \in CallIds : MwReturns(id)
    \/ \E id \in CallIds : MwThrows(id)
    \/ \E m \in EnvMethods : SpyOn(m)
    \/ \E l \in EnvLists : Register("update", l)

SpecEnv == InitEnv /\ [][NextEnv]_vars

-----------------------------------------------------------------------------
(* Reading a call's history *)

Indices(c) == 1..Len(c.trace)

EventsOf(c, ev) == {k \in Indices(c) : c.trace[k].ev = ev}

\* invocations of the base method (the terminal step found one to invoke)
BaseInvocations(c) == {k \in EventsOf(c, "base") : IsFunction(c.trace[k].kind)}

\* an invocation of a stage of the chain: a middleware or the terminal step
IsStage(e) == e.ev \in {"mw", "base"}

\* the middleware invoked at index k left by returning, without calling next
Bypassed(c, k) ==
    /\ c.trace[k].ev = "mw"
    /\ k + 1 \in Indices(c)
    /\ c.trace[k + 1].ev = "return"
    /\ c.trace[k + 1].pos = c.trace[k].pos

\* middlewares that call next once with what they received and return what
\* it yields (dontUpdate: unless its bypass condition holds)
Forwards(kind, args) ==
    \/ kind \in {"forward", "rescue"}
    \/ /\ kind = "dontUpdate"
       /\ MwAction("dontUpdate", args, 0, Undefined).do = "next"

\* middlewares that return what their single call of next yields, whatever
\* arguments they give it
ReturnsNext(kind, args) == Forwards(kind, args) \/ kind = "auditLog"

\* middlewares that call next with exactly what they received
PassesOn(kind, args) == Forwards(kind, args) \/ kind \in {"logging", "twice"}

\* what the registry holds under a name, an absent entry read as empty
Registered(prop) == IF prop \in DOMAIN middlewares THEN middlewares[prop] ELSE <<>>

\* what the middleware calling next at index k had received
ReceivedBy(c, k) ==
    LET j == CHOOSE j \in EventsOf(c, "mw") :
                /\ j < k
                /\ c.trace[j].pos = c.trace[k].pos
                /\ \A i \in EventsOf(c, "mw") :
                      (i < k /\ c.trace[i].pos = c.trace[k].pos) => i <= j
    IN  c.trace[j].args

-----------------------------------------------------------------------------
(* Claims *)

\* C1: pass-through.  When the registry has no entry or an empty list for an
\* operation the provider implements, a completed call has invoked the base
\* operation exactly once, with exactly the caller's argument list, and the
\* caller has what the base operation yields for that argument list.
C1_PassThrough ==
    \A id \in CallIds :
        LET c == calls[id] IN
        (/\ c.st = "done"
         /\ Registered(c.prop) = <<>>
         /\ IsFunction(target[c.prop]))
        => /\ Cardinality(BaseInvocations(c)) = 1
           /\ \A k \in BaseInvocations(c) : c.trace[k].args = c.args
           /\ c.result = BaseCall(target[c.prop], c.result.kind, c.args)

\* C2: execution order.  The first-listed middleware is the first stage
\* invoked; the middleware listed at i + 1 is invoked only as the effect of
\* a call of next by the one listed at i; the base operation only as the
\* effect of a call of next by the last-listed one; so every stage invoked
\* has the stage listed before it invoked earlier.
C2_ExecutionOrder ==
    \A id \in CallIds :
        LET c == calls[id]
            n == Len(c.mws)
        IN  \A k \in Indices(c) :
                LET e == c.trace[k] IN
                /\ (k = 2 /\ n > 0) => (e.ev = "mw" /\ e.pos = 1)
                /\ (IsStage(e) /\ e.pos > 1) =>
                      /\ c.trace[k - 1].ev = "next"
                      /\ c.trace[k - 1].pos = e.pos - 1
                      /\ \E j \in 1..(k - 1) :
                            c.trace[j].ev = "mw" /\ c.trace[j].pos = e.pos - 1
                /\ e.ev = "mw" => (e.pos \in 1..n /\ e.kind = c.mws[e.pos])
                /\ e.ev = "base" => e.pos = n + 1

C2_Witness ==
    \E id \in CallIds :
        LET c == calls[id] IN
        /\ c.st = "done"
        /\ Len(c.mws) = 2
        /\ c.mws[1] # c.mws[2]
        /\ EventsOf(c, "base") # {}

\* C3: bypass.  When a middleware returns without having called its next, no
\* middleware listed after it and not the base operation is invoked in that
\* call, and the caller receives what that middleware returned, the
\* middlewares listed before it returning what their next yields.  When
\* dontUpdate does call next and the middlewares listed after it forward,
\* the base operation is invoked with the caller's arguments.
C3_Bypass ==
    \A id \in CallIds :
        LET c == calls[id] IN
        \A k \in Indices(c) :
            LET e == c.trace[k] IN
            /\ Bypassed(c, k) =>
                  /\ \A j \in Indices(c) : IsStage(c.trace[j]) => c.trace[j].pos <= e.pos
                  /\ (/\ c.st = "done"
                      /\ \A i \in 1..(e.pos - 1) : ReturnsNext(c.mws[i], c.args))
                     => c.result = c.trace[k + 1].res
            /\ (/\ e.ev = "next"
                /\ e.kind = "dontUpdate"
                /\ \A i \in (e.pos + 1)..Len(c.mws) : PassesOn(c.mws[i], c.args)
                /\ c.st = "done")
               => \E j \in EventsOf(c, "base") : j > k /\ c.trace[j].args = c.args

C3_Witness ==
    \E id \in CallIds :
        LET c == calls[id] IN
        /\ c.st = "done"
        /\ c.mws = <<"forward", "dontUpdate">>
        /\ Bypassed(c, 4)
        /\ c.result.by = "dontUpdate"

\* C4: argument rewriting reaches the base operation.  When a middleware
\* calls next with arguments other than those it received and every
\* middleware listed after it passes on what it received, the base operation
\* (of a provider that implements it) is invoked with the rewritten
\* arguments.
C4_RewriteReachesBase ==
    \A id \in CallIds :
        LET c == calls[id] IN
        \A k \in EventsOf(c, "next") :
            LET e == c.trace[k] IN
            (/\ c.st = "done"
             /\ IsFunction(target[c.prop])
             /\ e.args # ReceivedBy(c, k)
             /\ \A i \in (e.pos + 1)..Len(c.mws) : PassesOn(c.mws[i], ReceivedBy(c, k)))
            => /\ \E j \in EventsOf(c, "base") : j > k
               /\ \A j \in EventsOf(c, "base") : j > k => c.trace[j].args = e.args

CallsNextOnce(kind, args) == ReturnsNext(kind, args) \/ kind = "logging"

\* C7: duplicate registration.  With [f, f] registered, f calling next once
\* per invocation, a completed call has invoked f exactly twice, the second
\* invocation by the first one's call of next, and then the base operation
\* exactly once.
C7_DuplicateRegistration ==
    \A id \in CallIds :
        LET c == calls[id]
            l == Registered(c.prop)
        IN  (/\ c.st = "done"
             /\ Len(l) = 2
             /\ l[1] = l[2]
             /\ CallsNextOnce(l[1], c.args))
            => /\ EventsOf(c, "mw") = {2, 4}
               /\ c.trace[2].kind = l[1] /\ c.trace[4].kind = l[1]
               /\ c.trace[3].ev = "next" /\ c.trace[3].pos = c.trace[2].pos
               /\ EventsOf(c, "base") = {6}
               /\ c.trace[5].ev = "next" /\ c.trace[5].pos = c.trace[4].pos

C7_Witness ==
    \E id \in CallIds :
        LET c == calls[id] IN
        /\ c.st = "done"
        /\ c.prop = "getList"
        /\ Registered(c.prop) = <<"logging", "logging">>
        /\ Cardinality(BaseInvocations(c)) = 1

\* C8: routing by operation name.  A call to operation m invokes only the
\* middlewares registered under m, each the one listed at its position, and
\* only the provider's implementation of m, custom operations included.
C8_Routing ==
    \A id \in CallIds :
        LET c == calls[id] IN
        \A k \in Indices(c) :
            LET e == c.trace[k] IN
            /\ e.key = c.prop
            /\ e.ev \in {"mw", "next", "return", "throw"} =>
                  /\ e.pos \in 1..Len(Registered(c.prop))
                  /\ e.kind = Registered(c.prop)[e.pos]
            /\ e.ev = "base" => e.kind = target[c.prop]

C8_Witness ==
    \E id \in CallIds :
        LET c == calls[id] IN
        /\ c.st = "done"
        /\ c.prop = "customMethod"
        /\ Registered("customMethod") = <<"logging", "logging">>
        /\ Len(Registered("update")) = 2
        /\ Registered("update") # Registered("customMethod")
        /\ BaseInvocations(c) # {}

\* C9: transparent error propagation.  What the base operation or a
\* middleware throws reaches the caller as thrown when no middleware listed
\* before it catches; a rejection it returns reaches the caller when every
\* middleware listed before it returns what its next yields; and when every
\* middleware listed before it calls next once, no stage has been invoked
\* twice.
C9_ErrorPropagation ==
    \A id \in CallIds :
        LET c == calls[id] IN
        \A k \in Indices(c) :
            LET e == c.trace[k]
                thrown == /\ e.ev \in {"throw", "base"}
                          /\ e.res.kind = "throw"
                          /\ \A i \in 1..(e.pos - 1) : ~Catches(c.mws[i])
                rejected == /\ e.ev \in {"return", "base"}
                            /\ e.res.kind = "rejected"
                            /\ e.res.by = e.kind
                            /\ \A i \in 1..(e.pos - 1) :
                                  ReturnsNext(c.mws[i], c.args) /\ ~Catches(c.mws[i])
                once == \A i \in 1..(e.pos - 1) : ReturnsNext(c.mws[i], c.args)
            IN  (c.st = "done" /\ (thrown \/ rejected))
                => /\ c.result = e.res
                   /\ once => \A i, j \in Indices(c) :
                                 (/\ IsStage(c.trace[i])
                                  /\ IsStage(c.trace[j])
                                  /\ c.trace[i].pos = c.trace[j].pos) => i = j

C9_Witness ==
    \E id \in CallIds :
        LET c == calls[id] IN
        /\ c.st = "done"
        /\ c.mws = <<"forward", "auditLog">>
        /\ c.result.kind = "throw"
        /\ c.result.by = "orig"

\* C10: a missing operation fails only at the terminal step.  For an
\* operation the provider does not implement, reading the property yields a
\* callable and nothing fails; a call fails with the call on a non-function
\* only once the terminal step is invoked, after every middleware registered
\* under the name has been invoked; and a middleware that bypasses next
\* gives the caller its own result, with no failure.
C10_MissingOperation ==
    \A id \in CallIds :
        LET c == calls[id]
            l == Registered(c.prop)
        IN  (c.st # "idle" /\ target[c.prop] = "undefined")
            => /\ c.st = "got" => (c.trace = <<>> /\ c.result = Undefined)
               /\ c.result = TypeError => EventsOf(c, "base") # {}
               /\ \A k \in EventsOf(c, "base") :
                     /\ c.trace[k].res = TypeError
                     /\ \A i \in 1..Len(l) :
                           \E j \in 1..(k - 1) :
                               /\ c.trace[j].ev = "mw"
                               /\ c.trace[j].pos = i
                               /\ c.trace[j].kind = l[i]
               /\ \A k \in Indices(c) :
                     (/\ Bypassed(c, k)
                      /\ c.st = "done"
                      /\ \A i \in 1..(c.trace[k].pos - 1) : ReturnsNext(l[i], c.args))
                     => /\ c.result = c.trace[k + 1].res
                        /\ c.result # TypeError
                        /\ EventsOf(c, "base") = {}

C10_Witness ==
    \E id \in CallIds :
        LET c == calls[id] IN
        /\ c.st = "done"
        /\ c.prop = "update"
        /\ target["update"] = "undefined"
        /\ Registered("update") = <<"forward", "dontUpdate">>
        /\ c.result.kind = "resolved"
        /\ c.result.by = "dontUpdate"

\* a call of an operation the provider lacks, its middlewares forwarding,
\* has failed at the terminal step
C10_FailureWitness ==
    \E id \in CallIds :
        LET c == calls[id] IN
        /\ c.st = "done"
        /\ target[c.prop] = "undefined"
        /\ Registered(c.prop) = <<"logging", "logging">>
        /\ c.result = TypeError

\* C11: shape compatibility.  Reading, on the wrapped provider, a string-keyed
\* property that the base provider holds as a non-function (a flag such as
\* supportAbortSignal) or does not hold yields what reading it on the base
\* provider yields: the flag's value, or undefined.
C11_ShapeCompatible ==
    \A id \in CallIds :
        LET c == calls[id] IN
        (/\ c.st = "got"
         /\ IsStringKey(c.prop)
         /\ ~IsFunction(target[c.prop]))
        => c.got = target[c.prop]

\* C16: non-string keys bypass the chain.  For a symbol key the wrapped
\* provider yields what the base provider yields: when the base provider
\* holds no function under the key, reading it yields that same value; when
\* it holds a function, calling what was read invokes that function with the
\* caller's arguments and gives its result; and no middleware is invoked.
C16_SymbolKeyForwarded ==
    \A id \in CallIds :
        LET c == calls[id] IN
        (c.st # "idle" /\ ~IsStringKey(c.prop))
        => /\ ~IsFunction(target[c.prop]) => c.got = target[c.prop]
           /\ EventsOf(c, "mw") = {}
           /\ (c.st = "done" /\ IsFunction(target[c.prop]))
              => /\ \A k \in EventsOf(c, "base") : c.trace[k].args = c.args
                 /\ c.result = BaseCall(target[c.prop], c.result.kind, c.args)

\* C12: the result is returned unchanged.  What a completed call of a wrapped
\* operation gives its caller is what the outermost stage yielded: the base
\* operation's result when no middleware is registered, else what the
\* first-listed middleware returned (or what was thrown through it).  So the
\* caller has the base operation's own result when every middleware returns
\* what its next yields, and has nothing when the first middleware returns
\* nothing, although the base operation ran.
C12_ResultUnchanged ==
    \A id \in CallIds :
        LET c == calls[id]
            n == Len(c.mws)
            last == c.trace[Len(c.trace)]
        IN  (c.st = "done" /\ IsStringKey(c.prop))
            => /\ n = 0 => (last.ev = "base" /\ c.result = last.res)
               /\ (n > 0 /\ c.result.kind # "throw")
                  => (last.ev = "return" /\ last.pos = 1 /\ c.result = last.res)
               /\ (n > 0 /\ c.result.kind = "throw")
                  => (last.ev \in {"throw", "base"} /\ c.result = last.res)
               /\ (\A i \in 1..n : ReturnsNext(c.mws[i], c.args) /\ ~Catches(c.mws[i]))
                  => /\ Cardinality(EventsOf(c, "base")) = 1
                     /\ \A k \in EventsOf(c, "base") : c.result = c.trace[k].res
               /\ (n > 0 /\ c.mws[1] = "logging" /\ c.result.kind # "throw")
                  => /\ c.result = Undefined
                     /\ (\A i \in 2..n : PassesOn(c.mws[i], c.args))
                        => EventsOf(c, "base") # {}

C12_Witness ==
    \E id \in CallIds :
        LET c == calls[id] IN
        /\ c.st = "done"
        /\ c.mws = <<"logging", "forward">>
        /\ \E k \in BaseInvocations(c) : c.trace[k].res.kind = "resolved"
        /\ c.result = Undefined

\* how many times a middleware calls next in an invocation that nothing
\* thrown cuts short
NextCallsOf(kind, args) ==
    IF kind = "twice" THEN 2
    ELSE IF CallsNextOnce(kind, args) THEN 1
    ELSE 0

NextCallsBy(c, i) == {k \in EventsOf(c, "next") : c.trace[k].pos = i}

StageInvocations(c, i) == {k \in Indices(c) : IsStage(c.trace[k]) /\ c.trace[k].pos = i}

\* C15: no exactly-once constraint on next.  The stage after a middleware is
\* invoked once per call of next by that middleware, each call of next being
\* followed at once by that invocation; and when nothing is thrown in a
\* completed call, every invocation of a middleware has made all its calls
\* of next, the second as well as the first.
C15_NextUnconstrained ==
    \A id \in CallIds :
        LET c == calls[id] IN
        \A i \in 1..Len(c.mws) :
            /\ Cardinality(NextCallsBy(c, i)) = Cardinality(StageInvocations(c, i + 1))
            /\ \A k \in NextCallsBy(c, i) : (k + 1) \in StageInvocations(c, i + 1)
            /\ (/\ c.st = "done"
                /\ \A k \in Indices(c) : c.trace[k].res.kind # "throw")
               => Cardinality(NextCallsBy(c, i))
                     = NextCallsOf(c.mws[i], c.args) * Cardinality(StageInvocations(c, i))

C15_Witness ==
    \E id \in CallIds :
        LET c == calls[id] IN
        /\ c.st = "done"
        /\ c.mws = <<"twice", "logging">>
        /\ Cardinality(StageInvocations(c, 2)) = 2
        /\ Cardinality(BaseInvocations(c)) = 2

\* the calls whose middlewares, if any, each call next exactly once
OncePerStage(c) ==
    /\ IsStringKey(c.prop)
    /\ IsFunction(target[c.prop])
    /\ \A i \in 1..Len(c.mws) : CallsNextOnce(c.mws[i], c.args)

RECURSIVE TotalBaseInvocations(_)
TotalBaseInvocations(ids) ==
    IF ids = {} THEN 0
    ELSE LET i == CHOOSE i \in ids : TRUE IN
         Cardinality(BaseInvocations(calls[i])) + TotalBaseInvocations(ids \ {i})

\* C13: no deduplication, no retry.  Whatever the interleaving, a call whose
\* middlewares each call next once never has more than one invocation of the
\* base operation, a completed one has exactly one, also when another call
\* is identical and when the base operation rejects; so N such calls,
\* completed, make N invocations in total.
C13_NoDedupNoRetry ==
    /\ \A id \in DOMAIN calls :
          LET c == calls[id] IN
          (c.st \in {"running", "done"} /\ OncePerStage(c))
          => /\ Cardinality(BaseInvocations(c)) <= 1
             /\ c.st = "done" => Cardinality(BaseInvocations(c)) = 1
    /\ (\A id \in DOMAIN calls : calls[id].st = "done" /\ OncePerStage(calls[id]))
       => TotalBaseInvocations(DOMAIN calls) = Cardinality(DOMAIN calls)

\* two identical calls overlap, each has invoked the base operation, and the
\* first invocation rejected
C13_Witness ==
    /\ calls["A"].st = "running"
    /\ calls["B"].st = "running"
    /\ calls["A"].prop = calls["B"].prop
    /\ calls["A"].args = calls["B"].args
    /\ OncePerStage(calls["A"])
    /\ \E k \in BaseInvocations(calls["A"]) : calls["A"].trace[k].res.kind = "rejected"
    /\ BaseInvocations(calls["B"]) # {}

\* the argument lists that derive from a call's own: the list itself, the
\* list with the operation name before it, and auditLogMiddleware's rewriting
DerivedArgs(c) ==
    {c.args, <<c.prop>> \o c.args}
    \cup (IF c.prop = "update" THEN {<<c.args[1], WithUpdatedAt(c.args[2])>>} ELSE {})

\* the outcomes of the base operation's invocations in a call, in order
BaseAnswers(c) ==
    LET base == SelectSeq(c.trace, LAMBDA e : e.ev = "base") IN
    [k \in 1..Len(base) |-> base[k].res.kind]

\* C14: independence of calls.  Whatever the interleaving of two calls, every
\* stage invoked for a call receives arguments that derive from that call's
\* own argument list, what the base operation answered it with was computed
\* from such arguments, and two calls of the same operation with the same
\* arguments and the same answers of the base operation have the same
\* history and the same result, whatever the other one was doing meanwhile.
C14_Independence ==
    /\ \A id \in DOMAIN calls :
          LET c == calls[id] IN
          /\ \A k \in Indices(c) :
                /\ c.trace[k].ev = "mw" => c.trace[k].args = c.args
                /\ c.trace[k].ev \in {"next", "base", "chain"} => c.trace[k].args \in DerivedArgs(c)
                /\ c.trace[k].key = c.prop
          /\ (c.st = "done" /\ c.result.by = "orig") => c.result.on \in DerivedArgs(c)
    /\ \A a, b \in DOMAIN calls :
          (/\ calls[a].st = "done"
           /\ calls[b].st = "done"
           /\ calls[a].prop = calls[b].prop
           /\ calls[a].args = calls[b].args
           /\ BaseAnswers(calls[a]) = BaseAnswers(calls[b]))
          => calls[a] = calls[b]

\* two calls of update with different arguments are in progress, each with a
\* middleware invoked
C14_Witness ==
    /\ calls["A"].st = "running"
    /\ calls["B"].st = "running"
    /\ calls["A"].prop = "update"
    /\ calls["B"].prop = "update"
    /\ calls["A"].args # calls["B"].args
    /\ EventsOf(calls["A"], "next") # {}
    /\ Len(calls["B"].stack) = 2

\* the events that a step adds to the history of a call
NewEvents(id) ==
    IF calls'[id] = calls[id] THEN {}
    ELSE IF calls[id].st \in {"got", "done"} THEN 1..Len(calls'[id].trace)
    ELSE (Len(calls[id].trace) + 1)..Len(calls'[id].trace)

\* C17: late binding of the terminal step.  Whenever the terminal step is
\* invoked, what it calls is what the base provider holds under the
\* operation name at that moment: once the operation is replaced, by a spy
\* installed after the provider was wrapped, after the property was read or
\* even while the call is in progress, every later invocation of the
\* terminal step calls the replacement and never the former implementation.
C17_LateBinding ==
    [][\A id \in DOMAIN calls : \A k \in NewEvents(id) :
          LET e == calls'[id].trace[k] IN
          e.ev = "base"
          => /\ e.kind = target[e.key]
             /\ IsFunction(target[e.key]) => e.res.by = target[e.key]]_vars

\* within one call the terminal step was invoked twice, first calling the
\* original update and then, the spy installed in between, the spy
C17_Witness ==
    \E j, k \in BaseInvocations(calls["A"]) :
        /\ j < k
        /\ calls["A"].trace[j].res.by = "orig"
        /\ calls["A"].trace[k].res.by = "spy"
        /\ target["update"] = "spy"

\* C18: registry read per call.  Each invocation of a callable uses the list
\* that the registry holds under the operation name when the invocation is
\* made, and starts as a fresh property read followed by a call would:
\* nothing of an earlier invocation (its list, its arguments, its history)
\* remains; and no step of the proxy writes to the registry or to the base
\* provider.
C18_RegistryReadPerCall ==
    [][/\ \A id \in DOMAIN calls :
             (calls[id].st \in {"got", "done"} /\ calls'[id] # calls[id]
              /\ IsStringKey(calls[id].prop))
             => LET d == calls'[id] IN
                /\ d.mws = Registered(calls[id].prop)
                /\ d.trace[1] = Event("chain", 0, d.prop, "invokeChain",
                                      <<d.prop>> \o d.args, Undefined)
                /\ \A k \in 2..Len(d.trace) :
                      d.trace[k].ev = "mw" => d.trace[k].args = d.args
                /\ \E how \in BaseOutcomes :
                      d = [Invoke(Callable(d.prop), d.args, how) EXCEPT !.n = d.n]
       /\ calls' # calls => (middlewares' = middlewares /\ target' = target)]_vars

\* a callable is in its second invocation, with a list other than the empty
\* one read from the registry
C18_Witness ==
    /\ calls["A"].n = 2
    /\ calls["A"].st = "running"
    /\ calls["A"].prop = "update"
    /\ calls["A"].mws # <<>>
    /\ calls["A"].mws = Registered("update")

====
